---- MODULE Spec2Model ----
(***************************************************************************)
(* Model of the PDF compression core (src/pdf_compressor.py) together with *)
(* the part of its environment that touches the same files: the wall clock *)
(* and the retention sweep of src/file_manager.py.                         *)
(*                                                                         *)
(* One call of compress_pdf_file is a process whose program counter `pc`   *)
(* walks the statements of the function.  Every statement that touches the *)
(* file system is a step of its own, so that the sweep can interleave with *)
(* it; the body of the per-image try block (lines 120-180) is one step,    *)
(* because it works on the in-memory document and the private scratch      *)
(* directory only.  A call into PyMuPDF or PIL, and the creation of the    *)
(* scratch directory, may raise: each has a failure outcome chosen         *)
(* nondeterministically.  A call that reads or removes a file raises when  *)
(* no file has the name, and succeeds otherwise; two different paths name  *)
(* two different files.                                                    *)
(*                                                                         *)
(* Spec is one call with the clock and the sweep.  SpecPair is two calls   *)
(* made for two requests of the webhook (src/app.py) at the same time,     *)
(* SpecTwice is one call followed by a second on the path it returned, and *)
(* SpecCleanup is the cleanup thread of src/file_manager.py, statement by  *)
(* statement, with the fairness its liveness needs.  SpecPlacement is one  *)
(* call on a document that shows an image at several rectangles,           *)
(* SpecWebhook one request of the webhook beside the cleanup thread,       *)
(* SpecLifecycle and SpecStop the starting and stopping of cleanup         *)
(* threads, SpecSweep the cleanup thread with failing file system calls,   *)
(* and SpecFormat the function format_file_size.                           *)
(***************************************************************************)
EXTENDS Integers, Sequences, FiniteSets, TLC

VARIABLES
    fs,                 \* the upload directory: path -> file
    now,                \* wall clock, in hours
    pdf,                \* the document stored in the input file
    input_file,         \* parameter of compress_pdf_file
    output_file,        \* parameter, then local of compress_pdf_file
    compression_level,  \* parameter of compress_pdf_file
    pc,                 \* position of the call in compress_pdf_file
    doc,                \* the in-memory document handle (fitz.open)
    temp_dir,           \* the TemporaryDirectory of the call
    page_num,           \* loop variable, line 114
    img_index,          \* loop variable, line 119
    img,                \* locals of the current pass through lines 120-180
    images_compressed,  \* local, line 111
    input_size,         \* local, line 199
    output_size,        \* local, line 200
    result,             \* the value returned to the caller
    returned_at,        \* source line of the return statement taken
    dependencies,       \* can fitz be imported in this installation?
    oracle,             \* the outcomes of the library calls, when they are fixed
    other,              \* the call that is not at the processor, or the last one
    worker,             \* the cleanup thread of file_manager.py
    web,                \* the webhook request of app.py that makes the call
    formatted           \* an argument of format_file_size and the string returned

vars == <<fs, now, pdf, input_file, output_file, compression_level, pc, doc,
          temp_dir, page_num, img_index, img, images_compressed, input_size,
          output_size, result, returned_at, dependencies, oracle, other,
          worker, web, formatted>>

(***************************************************************************)
(* Bounds of the model.                                                    *)
(***************************************************************************)
MaxPages == 2
MaxTicks == 1
MaxRects == 2
InputSize == 2000000

(***************************************************************************)
(* Program constants.                                                      *)
(***************************************************************************)
MAX_FILE_AGE_HOURS == 24
TickHours == 25
MinImageBytes == 10000
MinImageDimension == 100
DefaultLevel == 3
Unset == -1

(***************************************************************************)
(* Paths.  A path is the pair (stem, suffix) of pathlib; the stem is kept  *)
(* as a sequence of tokens so that prefixes and appended tokens can be     *)
(* told apart.  The empty stem is the path with an empty name ("" or "/"). *)
(***************************************************************************)
MkPath(stem, suffix) == [stem |-> stem, suffix |-> suffix]

NoPath == MkPath(<<"None">>, "")
EmptyPath == MkPath(<<>>, "")
PathA == MkPath(<<"a">>, ".pdf")
PathB == MkPath(<<"b">>, ".pdf")

\* Path.with_stem(f"{path.stem}_compressed"); raises ValueError on an empty name
WithStemRaises(path) == path.stem = <<>>

\* an output name that does not depend on the input name
WithStemFixed(path) == MkPath(<<"compressed">>, path.suffix)

WithStem(path) == MkPath(Append(path.stem, "_compressed"), path.suffix)

Paths == {PathA, PathB, WithStem(PathA)}

(***************************************************************************)
(* Files.                                                                  *)
(***************************************************************************)
NoFile == [exists |-> FALSE, size |-> 0, mtime |-> 0, data |-> "none",
           replaced |-> 0, lost |-> 0]

MkFile(size, mtime, data, replaced, lost) ==
    [exists |-> TRUE, size |-> size, mtime |-> mtime, data |-> data,
     replaced |-> replaced, lost |-> lost]

\* the input file as the caller wrote it
InputFile == MkFile(InputSize, 0, "orig", 0, 0)

Exists(p) == p \in DOMAIN fs /\ fs[p].exists

(***************************************************************************)
(* Documents.  A document is a sequence of pages; a page lists the images  *)
(* it references (page.get_images) with the number of rectangles at which  *)
(* each is shown (page.get_image_rects).  Image objects live in the        *)
(* document's cross-reference table, so two pages may show the same xref.  *)
(***************************************************************************)
Xrefs == 1..2

MkImage(len, width, height, mode) ==
    [len |-> len, width |-> width, height |-> height, mode |-> mode]

\* the images the first xref is drawn from: each side of each threshold
ImageKinds ==
    { MkImage(9999, 3000, 2000, "RGB"),
      MkImage(10000, 100, 100, "RGB"),
      MkImage(20000, 99, 3000, "RGB"),
      MkImage(20000, 3000, 99, "RGB"),
      MkImage(500, 50, 50, "RGB"),
      MkImage(2000000, 3000, 2000, "RGB"),
      MkImage(20000, 3000, 2000, "RGBA"),
      MkImage(20000, 3000, 2000, "P") }

SecondImage == MkImage(40000, 1600, 1200, "RGB")

\* what delete_image leaves in place of an image: a 1x1 transparent pixmap
BlankImage == MkImage(70, 1, 1, "LA")

Placement(xref, rects) == [xref |-> xref, rects |-> rects]

PageLayouts ==
    { <<>>,
      <<Placement(1, 1)>>,
      <<Placement(1, 1), Placement(2, 1)>> }

\* a first page of any layout, followed by pages that show the first image
\* again
Pages ==
    { [n \in 1..len |-> IF n = 1 THEN first ELSE <<Placement(1, 1)>>] :
        len \in 1..MaxPages, first \in PageLayouts }

Docs == { [pages |-> ps, images |-> <<k, SecondImage>>] : ps \in Pages, k \in ImageKinds }

\* the documents whose first image is the large opaque one
PlainDocs == { d \in Docs : d.images[1] = MkImage(2000000, 3000, 2000, "RGB") }

EmptyDoc == [pages |-> <<>>, images |-> <<BlankImage, BlankImage>>]

\* the scratch directory and the img_<page>_<index>.jpg files in it
NoTempDir == [exists |-> FALSE, files |-> {}]

ClosedDoc == [is_open |-> FALSE, saved |-> FALSE, blanked |-> {}, inserted |-> {}]

\* the image data doc.extract_image(xref) returns at the moment of the call
ExtractImage(xref) == IF xref \in doc.blanked THEN BlankImage ELSE pdf.images[xref]

(***************************************************************************)
(* compress_pdf_file: the tier table and the per-image decisions.          *)
(***************************************************************************)
Levels == 0..5

MkSettings(quality, dpi, max_dimension) ==
    [quality |-> quality, dpi |-> dpi, max_dimension |-> max_dimension]

\* a table whose last tier allows larger images than the tier before it
quality_settings_unordered ==
    [level \in 0..4 |->
        CASE level = 0 -> MkSettings(95, 300, 4000)
          [] level = 1 -> MkSettings(90, 250, 3000)
          [] level = 2 -> MkSettings(85, 200, 2500)
          [] level = 3 -> MkSettings(75, 150, 2000)
          [] level = 4 -> MkSettings(60, 100, 2500)]

\* lines 92-98: the dict literal, built anew by every call and only read
quality_settings ==
    [level \in 0..4 |->
        CASE level = 0 -> MkSettings(95, 300, 4000)
          [] level = 1 -> MkSettings(90, 250, 3000)
          [] level = 2 -> MkSettings(85, 200, 2500)
          [] level = 3 -> MkSettings(75, 150, 2000)
          [] level = 4 -> MkSettings(60, 100, 1500)]

\* a lookup that falls back to the strongest tier
settings_strongest ==
    IF compression_level \in DOMAIN quality_settings
    THEN quality_settings[compression_level]
    ELSE quality_settings[4]

\* quality_settings.get(compression_level, quality_settings[3])
settings ==
    IF compression_level \in DOMAIN quality_settings
    THEN quality_settings[compression_level]
    ELSE quality_settings[DefaultLevel]

\* the byte test with the bound included
TooFewBytesOrEqual(len) == len <= MinImageBytes

\* line 128: len(image_bytes) < 10000
TooFewBytes(len) == len < MinImageBytes

\* the dimension test asking for both sides to be small
TooSmallBoth(width, height) == width < MinImageDimension /\ height < MinImageDimension

\* line 135: img.width < 100 or img.height < 100
TooSmall(width, height) == width < MinImageDimension \/ height < MinImageDimension

Max(a, b) == IF a > b THEN a ELSE b

\* line 148: current_max > max_dimension
NeedsResize(width, height, max_dimension) == Max(width, height) > max_dimension

\* lines 149-151: int(dim * (max_dimension / current_max)).  For the
\* dimensions of ImageKinds the double product truncates to the same
\* integer as the exact quotient.
Scaled(dim, max_dimension, current_max) == (dim * max_dimension) \div current_max

\* PIL writes JPEG from these modes only; the code converts RGBA alone
JpegModes == {"RGB", "L", "CMYK"}

\* lines 141-142
Converted(mode) == IF mode = "RGBA" THEN "RGB" ELSE mode

\* the byte lengths the encoder may produce for an image of len bytes:
\* just under, exactly at and just over 95% of the original
CompressedLens(len) ==
    { (19 * len) \div 20 - 1, (19 * len) \div 20, (19 * len) \div 20 + 1 }

\* the acceptance test with the bound included
AcceptedAt95(clen, len) == 20 * clen <= 19 * len

\* lines 161-162: len(compressed_bytes) / len(image_bytes) < 0.95.  The
\* double quotient is below the double 0.95 exactly when 20c < 19o, for
\* every length a file can have.
Accepted(clen, len) == 20 * clen < 19 * len

\* the size comparison with equality kept, and with the sides exchanged
KeepOutputOrEqual(out_size, in_size) == out_size <= in_size

KeepOutputLarger(out_size, in_size) == out_size > in_size

\* line 202: output_size < input_size
KeepOutput(out_size, in_size) == out_size < in_size

\* the removal guard with the path test turned around, and with the
\* existence test turned around
RemoveGuardSame(out, in) == Exists(out) /\ out = in

RemoveGuardInverted(out, in) == ~Exists(out) /\ out /= in

\* lines 209 and 216: os.path.exists(output_file) and output_file != input_file
RemoveGuard(out, in) == Exists(out) /\ out /= in

(***************************************************************************)
(* Lines 120-180: one pass of the per-image try block.  `fail` names the   *)
(* library call that raises in this pass ("none": no call raises) and clen *)
(* is the byte length the JPEG encoder produces.  The value is the record  *)
(* of the locals the pass leaves behind; `raised` names the call that      *)
(* raised into the handler of line 178.                                    *)
(***************************************************************************)
FailPoints == {"none", "extract", "open", "resize", "encode", "write",
               "rects", "delete", "insert"}

NoImg == [xref |-> 0, len |-> Unset, width |-> Unset, height |-> Unset,
          mode |-> "", opened |-> FALSE, encoded |-> FALSE, clen |-> Unset,
          new_width |-> Unset, new_height |-> Unset, written |-> FALSE,
          rect |-> Unset, deleted |-> FALSE, inserted |-> FALSE,
          raised |-> "none"]

\* a handler that covers the decoding and encoding calls only
ImageCatchesCodec(point) == point \in {"extract", "open", "resize", "encode"}

\* lines 120 and 178: `except Exception` catches what any call of the pass
\* raises
ImageCatches(point) == point \in FailPoints

\* lines 163-176: the replacement is accepted
Replace(r, place, fail) ==
    IF fail = "write" THEN [r EXCEPT !.raised = "write"]
    ELSE IF fail = "rects" THEN [r EXCEPT !.written = TRUE, !.raised = "rects"]
    ELSE LET r1 == [r EXCEPT !.written = TRUE,
                             !.rect = IF place.rects > 0 THEN 1 ELSE 0]
         IN IF fail = "delete" THEN [r1 EXCEPT !.raised = "delete"]
            ELSE IF fail = "insert"
                 THEN [r1 EXCEPT !.deleted = TRUE, !.raised = "insert"]
                 ELSE [r1 EXCEPT !.deleted = TRUE, !.inserted = TRUE]

\* lines 138-176: the image passed both size tests
Reencode(r, data, place, fail, clen) ==
    LET resize == NeedsResize(data.width, data.height, settings.max_dimension)
        current_max == Max(data.width, data.height)
        r1 == [r EXCEPT !.mode = Converted(data.mode)]
        r2 == IF resize
              THEN [r1 EXCEPT
                      !.new_width = Scaled(data.width, settings.max_dimension, current_max),
                      !.new_height = Scaled(data.height, settings.max_dimension, current_max)]
              ELSE r1
    IN IF resize /\ fail = "resize" THEN [r1 EXCEPT !.raised = "resize"]
       ELSE IF fail = "encode" \/ r2.mode \notin JpegModes
            THEN [r2 EXCEPT !.encoded = TRUE, !.raised = "encode"]
            ELSE IF Accepted(clen, data.len)
                 THEN Replace([r2 EXCEPT !.encoded = TRUE, !.clen = clen], place, fail)
                 ELSE [r2 EXCEPT !.encoded = TRUE, !.clen = clen]

\* a pass that sends every extracted image to the encoder
ImagePassUntested(place, fail, clen) ==
    LET data == ExtractImage(place.xref)
        r0 == [NoImg EXCEPT !.xref = place.xref]
    IN IF fail = "extract" THEN [r0 EXCEPT !.raised = "extract"]
       ELSE IF fail = "open"
            THEN [r0 EXCEPT !.len = data.len, !.opened = TRUE, !.raised = "open"]
            ELSE Reencode([r0 EXCEPT !.len = data.len, !.opened = TRUE,
                                     !.width = data.width, !.height = data.height,
                                     !.mode = data.mode],
                          data, place, fail, clen)

\* lines 121-136: extraction and the two size tests
ImagePass(place, fail, clen) ==
    LET data == ExtractImage(place.xref)
        r0 == [NoImg EXCEPT !.xref = place.xref]
    IN IF fail = "extract" THEN [r0 EXCEPT !.raised = "extract"]
       ELSE IF TooFewBytes(data.len) THEN [r0 EXCEPT !.len = data.len]
       ELSE IF fail = "open"
            THEN [r0 EXCEPT !.len = data.len, !.opened = TRUE, !.raised = "open"]
            ELSE LET r1 == [r0 EXCEPT !.len = data.len, !.opened = TRUE,
                                      !.width = data.width, !.height = data.height,
                                      !.mode = data.mode]
                 IN IF TooSmall(data.width, data.height) THEN r1
                    ELSE Reencode(r1, data, place, fail, clen)

(***************************************************************************)
(* The outcomes of the library calls.  In general each call of PIL or      *)
(* PyMuPDF may fail or not and the encoder may produce any length; when    *)
(* two calls of compress_pdf_file on the same file are compared, the       *)
(* outcome of processing an image and the size of the saved document are   *)
(* functions of the content they are computed from.                        *)
(***************************************************************************)
FreeOracle == [fixed |-> FALSE, fail |-> <<"none", "none">>, delta |-> <<0, 0>>,
               size |-> <<InputSize, InputSize, InputSize>>]

\* the call of lines 120-176 that raises while the image xref is processed
FailChoices(xref) == IF oracle.fixed THEN {oracle.fail[xref]} ELSE FailPoints

\* the length of the JPEG the encoder makes of the image xref
LenChoices(xref, len) ==
    IF oracle.fixed THEN {(19 * len) \div 20 + oracle.delta[xref]}
    ELSE CompressedLens(len)

(***************************************************************************)
(* The locals of a call that has not executed its first statement, and the *)
(* record that keeps a call while another one is looked at.                *)
(***************************************************************************)
Fresh(at) ==
    /\ pc = at
    /\ doc = ClosedDoc
    /\ temp_dir = NoTempDir
    /\ page_num = 0
    /\ img_index = 0
    /\ img = NoImg
    /\ images_compressed = FALSE
    /\ input_size = Unset
    /\ output_size = Unset
    /\ result = NoPath
    /\ returned_at = 0

Started == Fresh("start")

NoCall == [pc |-> "none"]

\* the cleanup thread before schedule_cleanup: _cleanup_running is False
NoWorker == [running |-> FALSE, pc |-> "none"]

\* no request of the webhook is being served
NoRequest == [pc |-> "none"]

\* format_file_size has not been called
NoText == [unit |-> "", whole |-> 0, tenth |-> 0]
NoFormat == [size_bytes |-> 0, text |-> NoText]

(***************************************************************************)
(* The state after the caller has made its arguments and before the first  *)
(* statement of compress_pdf_file.                                         *)
(***************************************************************************)
Init ==
    /\ now = 0
    /\ \/ \* any document at any level, the output path left to the callee
          /\ input_file = PathA
          /\ output_file = NoPath
          /\ compression_level \in Levels
          /\ pdf \in Docs
          /\ fs = [p \in Paths |-> IF p = PathA THEN InputFile ELSE NoFile]
          /\ dependencies = TRUE
       \/ \* the caller names the output path: the input itself or another
          /\ input_file = PathA
          /\ output_file \in {PathA, PathB}
          /\ compression_level = DefaultLevel
          /\ pdf \in PlainDocs
          /\ fs = [p \in Paths |-> IF p = PathA THEN InputFile ELSE NoFile]
          /\ dependencies = TRUE
       \/ \* the input path names no file
          /\ input_file \in {PathA, EmptyPath}
          /\ output_file = NoPath
          /\ compression_level = DefaultLevel
          /\ pdf = EmptyDoc
          /\ fs = [p \in Paths |-> NoFile]
          /\ dependencies = TRUE
       \/ \* fitz or PIL is not installed
          /\ input_file = PathA
          /\ output_file \in {NoPath, PathB}
          /\ compression_level \in Levels
          /\ pdf \in PlainDocs
          /\ fs = [p \in Paths |-> IF p = PathA THEN InputFile ELSE NoFile]
          /\ dependencies = FALSE
    /\ Started
    /\ oracle = FreeOracle
    /\ other = NoCall
    /\ worker = NoWorker
    /\ web = NoRequest
    /\ formatted = NoFormat

\* what no statement of the call assigns: its parameters, the installation,
\* the library and the other threads
params == <<pdf, input_file, compression_level, dependencies, oracle, other, worker,
           web, formatted>>
loop == <<page_num, img_index, img, images_compressed>>
sizes == <<input_size, output_size>>

\* the statements inside the try of line 85
TryBody == {"outname", "tmpdir", "open", "page", "images", "save", "size_in",
            "size_out", "fb_remove"}

\* the try opened after the output name is chosen
CatchesLate(at) == at \in TryBody \ {"outname"}

\* lines 85 and 213: is an exception raised by the statement `at` caught?
Catches(at) == at \in TryBody

\* a scratch directory that outlives the block (tempfile.mkdtemp)
ExitTempDirKept(dir) == dir

\* line 108: TemporaryDirectory.__exit__ removes the directory and the files
\* in it, however the with block is left
ExitTempDir(dir) == NoTempDir

\* an exception leaves the with block and enters the handler of line 213, or
\* leaves the function
Raise(at) ==
    /\ pc' = IF Catches(at) THEN "except" ELSE "raised"
    /\ temp_dir' = ExitTempDir(temp_dir)

\* a return statement, which leaves the with block when inside it
Return(path, line) ==
    /\ pc' = "done"
    /\ result' = path
    /\ returned_at' = line
    /\ temp_dir' = ExitTempDir(temp_dir)

\* a check that reports success whatever the imports do
check_dependencies_always == TRUE

\* lines 22-35: the imports of fitz and PIL succeed (True) or raise
\* ImportError (False)
check_dependencies == dependencies

\* lines 79-83: the dependency check, then `import fitz` ahead of the try
CheckDependencies ==
    /\ pc = "start"
    /\ IF ~check_dependencies
       THEN Return(input_file, 81)
       ELSE /\ pc' = IF dependencies THEN "outname" ELSE "raised"
            /\ UNCHANGED <<temp_dir, result, returned_at>>
    /\ UNCHANGED <<fs, now, params, output_file, doc, loop, sizes>>

\* lines 86-89
ChooseOutput ==
    /\ pc = "outname"
    /\ IF output_file /= NoPath
       THEN pc' = "tmpdir" /\ UNCHANGED <<output_file, temp_dir>>
       ELSE IF WithStemRaises(input_file)
            THEN Raise("outname") /\ UNCHANGED output_file
            ELSE /\ output_file' = WithStem(input_file)
                 /\ pc' = "tmpdir"
                 /\ UNCHANGED temp_dir
    /\ UNCHANGED <<fs, now, params, doc, loop, sizes, result, returned_at>>

\* line 108: tempfile.TemporaryDirectory()
MakeTempDir ==
    /\ pc = "tmpdir"
    /\ \/ pc' = "open" /\ temp_dir' = [exists |-> TRUE, files |-> {}]
       \/ Raise("tmpdir")
    /\ UNCHANGED <<fs, now, params, output_file, doc, loop, sizes, result, returned_at>>

\* lines 110-111: fitz.open(input_file)
OpenDocument ==
    /\ pc = "open"
    /\ \/ /\ Exists(input_file)
          /\ doc' = [ClosedDoc EXCEPT !.is_open = TRUE]
          /\ page_num' = 0
          /\ images_compressed' = FALSE
          /\ pc' = "page"
          /\ UNCHANGED temp_dir
       \/ /\ Raise("open")
          /\ UNCHANGED <<doc, page_num, images_compressed>>
    /\ UNCHANGED <<fs, now, params, output_file, img_index, img, sizes, result,
                   returned_at>>

\* lines 114-116: the next page and its image list, or the end of the loop
LoadPage ==
    /\ pc = "page"
    /\ IF page_num = Len(pdf.pages)
       THEN /\ pc' = "save"
            /\ img' = NoImg
            /\ UNCHANGED <<temp_dir, page_num, img_index>>
       ELSE \/ /\ img_index' = 0
               /\ IF pdf.pages[page_num + 1] = <<>>
                  THEN pc' = "page" /\ page_num' = page_num + 1
                  ELSE pc' = "images" /\ UNCHANGED page_num
               /\ UNCHANGED <<temp_dir, img>>
            \/ /\ Raise("page")
               /\ UNCHANGED <<page_num, img_index, img>>
    /\ UNCHANGED <<fs, now, params, output_file, doc, images_compressed, sizes,
                   result, returned_at>>

\* lines 119-180: one image of the current page
ProcessImage ==
    /\ pc = "images"
    /\ LET image_list == pdf.pages[page_num + 1]
           place == image_list[img_index + 1]
       IN \E fail \in FailChoices(place.xref),
             clen \in LenChoices(place.xref, ExtractImage(place.xref).len) :
             LET r == ImagePass(place, fail, clen)
             IN /\ img' = r
                /\ doc' = [doc EXCEPT
                     !.blanked = IF r.deleted THEN @ \cup {place.xref} ELSE @,
                     !.inserted = IF r.inserted
                                  THEN @ \cup {[page |-> page_num, from |-> place.xref,
                                                rect |-> r.rect]}
                                  ELSE @]
                /\ images_compressed' = (images_compressed \/ r.inserted)
                /\ IF r.raised /= "none" /\ ~ImageCatches(r.raised)
                   THEN /\ Raise("images")
                        /\ UNCHANGED <<page_num, img_index>>
                   ELSE /\ temp_dir' = [temp_dir EXCEPT
                             !.files = IF r.written
                                       THEN @ \cup {<<page_num, img_index>>}
                                       ELSE @]
                        /\ IF img_index + 1 = Len(image_list)
                           THEN /\ pc' = "page"
                                /\ page_num' = page_num + 1
                                /\ UNCHANGED img_index
                           ELSE /\ pc' = "images"
                                /\ img_index' = img_index + 1
                                /\ UNCHANGED page_num
    /\ UNCHANGED <<fs, now, params, output_file, sizes, result, returned_at>>

\* images shown on some page whose object was blanked without a replacement
\* being inserted on that page
Lost(d) ==
    UNION { { <<n, i>> : i \in { j \in 1..Len(pdf.pages[n]) :
                /\ pdf.pages[n][j].xref \in d.blanked
                /\ ~ \E ins \in d.inserted :
                       ins.page = n - 1 /\ ins.from = pdf.pages[n][j].xref } } :
            n \in 1..Len(pdf.pages) }

\* the byte sizes doc.save may produce
SavedSizes == {InputSize - 1, InputSize, InputSize + 1}

\* the size this save produces: any of them, or the one the document's
\* content determines
SizeChoices(d) ==
    IF oracle.fixed THEN {oracle.size[Cardinality(d.inserted) + 1]} ELSE SavedSizes

\* a save that is made only after an image was replaced
SavesIfCompressed(compressed) == compressed

\* lines 190-194: both branches of `if images_compressed` save the document
Saves(compressed) == TRUE

\* lines 183-194: doc.save(output_file, garbage=4, deflate=True, clean=True)
SaveDocument ==
    /\ pc = "save"
    /\ IF ~Saves(images_compressed)
       THEN /\ pc' = "close"
            /\ UNCHANGED <<fs, doc, temp_dir>>
       ELSE \/ /\ output_file /= input_file
               /\ \E size \in SizeChoices(doc) :
                     fs' = [fs EXCEPT ![output_file] =
                              MkFile(size, now, "saved", Cardinality(doc.inserted),
                                     Cardinality(Lost(doc)))]
               /\ doc' = [doc EXCEPT !.saved = TRUE]
               /\ pc' = "close"
               /\ UNCHANGED temp_dir
            \/ \* the save raises after writing a part of the file
               /\ output_file /= input_file
               /\ fs' = [fs EXCEPT ![output_file] = MkFile(1, now, "partial", 0, 0)]
               /\ Raise("save")
               /\ UNCHANGED doc
            \/ \* the save raises before writing; saving onto the opened file
               \* without the incremental option always does
               /\ Raise("save")
               /\ UNCHANGED <<fs, doc>>
    /\ UNCHANGED <<now, params, output_file, loop, sizes, result, returned_at>>

\* line 196: the handle is closed and the in-memory document is dropped
CloseDocument ==
    /\ pc = "close"
    /\ doc' = [ClosedDoc EXCEPT !.saved = doc.saved]
    /\ pc' = "size_in"
    /\ UNCHANGED <<fs, now, params, output_file, temp_dir, loop, sizes, result,
                   returned_at>>

\* line 199: os.path.getsize(input_file)
GetInputSize ==
    /\ pc = "size_in"
    /\ IF Exists(input_file)
       THEN /\ input_size' = fs[input_file].size
            /\ pc' = "size_out"
            /\ UNCHANGED temp_dir
       ELSE Raise("size_in") /\ UNCHANGED input_size
    /\ UNCHANGED <<fs, now, params, output_file, doc, loop, output_size, result,
                   returned_at>>

\* line 200: os.path.getsize(output_file)
GetOutputSize ==
    /\ pc = "size_out"
    /\ IF Exists(output_file)
       THEN /\ output_size' = fs[output_file].size
            /\ pc' = "compare"
            /\ UNCHANGED temp_dir
       ELSE Raise("size_out") /\ UNCHANGED output_size
    /\ UNCHANGED <<fs, now, params, output_file, doc, loop, input_size, result,
                   returned_at>>

\* lines 202-207
CompareSizes ==
    /\ pc = "compare"
    /\ IF KeepOutput(output_size, input_size)
       THEN Return(output_file, 205)
       ELSE pc' = "fb_exists" /\ UNCHANGED <<temp_dir, result, returned_at>>
    /\ UNCHANGED <<fs, now, params, output_file, doc, loop, sizes>>

\* line 209, and line 211 when the test fails
FallbackExists ==
    /\ pc = "fb_exists"
    /\ IF RemoveGuard(output_file, input_file)
       THEN pc' = "fb_remove" /\ UNCHANGED <<temp_dir, result, returned_at>>
       ELSE Return(input_file, 211)
    /\ UNCHANGED <<fs, now, params, output_file, doc, loop, sizes>>

\* a removal that names the wrong file
RemovedPathInput(out, in) == in

\* lines 210 and 218: os.remove(output_file)
RemovedPath(out, in) == out

\* lines 210-211: os.remove(output_file) raises when the file is gone
FallbackRemove ==
    /\ pc = "fb_remove"
    /\ IF Exists(RemovedPath(output_file, input_file))
       THEN /\ fs' = [fs EXCEPT ![RemovedPath(output_file, input_file)] = NoFile]
            /\ Return(input_file, 211)
       ELSE /\ Raise("fb_remove")
            /\ UNCHANGED <<fs, result, returned_at>>
    /\ UNCHANGED <<now, params, output_file, doc, loop, sizes>>

\* lines 213-216, and line 221 when the test fails
HandlerExists ==
    /\ pc = "except"
    /\ IF output_file /= NoPath /\ RemoveGuard(output_file, input_file)
       THEN pc' = "h_remove" /\ UNCHANGED <<temp_dir, result, returned_at>>
       ELSE Return(input_file, 221)
    /\ UNCHANGED <<fs, now, params, output_file, doc, loop, sizes>>

\* lines 217-221: os.remove(output_file) inside try/except: pass
HandlerRemove ==
    /\ pc = "h_remove"
    /\ fs' = IF Exists(RemovedPath(output_file, input_file))
             THEN [fs EXCEPT ![RemovedPath(output_file, input_file)] = NoFile]
             ELSE fs
    /\ Return(input_file, 221)
    /\ UNCHANGED <<now, params, output_file, doc, loop, sizes>>

\* one statement of one call of compress_pdf_file
Call ==
    \/ CheckDependencies
    \/ ChooseOutput
    \/ MakeTempDir
    \/ OpenDocument
    \/ LoadPage
    \/ ProcessImage
    \/ SaveDocument
    \/ CloseDocument
    \/ GetInputSize
    \/ GetOutputSize
    \/ CompareSizes
    \/ FallbackExists
    \/ FallbackRemove
    \/ HandlerExists
    \/ HandlerRemove

(***************************************************************************)
(* The environment: time passes, and the cleanup worker of file_manager.py *)
(* sweeps the upload directory.                                            *)
(***************************************************************************)
call == <<params, output_file, pc, doc, temp_dir, loop, sizes, result, returned_at>>

Tick ==
    /\ now + TickHours <= MaxTicks * TickHours
    /\ now' = now + TickHours
    /\ UNCHANGED <<fs, call>>

\* the name test without the temp_ prefix
ExemptHidden(p) == p.stem /= <<>> /\ p.stem[1] = "."

\* file_manager.py line 90: hidden and temp_ files are skipped
Exempt(p) == p.stem /= <<>> /\ p.stem[1] \in {".", "temp_"}

\* file_manager.py lines 80 and 96: file_mtime < now - max_age_hours
Expired(file) == file.mtime < now - MAX_FILE_AGE_HOURS

\* file_manager.py lines 84-104: one pass of the loop of cleanup_old_files
\* on an entry that is old enough to be removed
CleanupOldFile(p) ==
    /\ Exists(p)
    /\ ~Exempt(p)
    /\ Expired(fs[p])
    /\ fs' = [fs EXCEPT ![p] = NoFile]
    /\ UNCHANGED <<now, call>>

Next ==
    \/ Call
    \/ Tick
    \/ \E p \in Paths : CleanupOldFile(p)

Spec == Init /\ [][Next]_vars

(***************************************************************************)
(* One call on a one-page document whose image is shown at no rectangle,   *)
(* at one, or at several rectangles of the page.                           *)
(***************************************************************************)
PlacedDocs ==
    { [pages |-> << <<Placement(1, n)>> >>,
       images |-> <<MkImage(2000000, 3000, 2000, "RGB"), SecondImage>>] :
        n \in 0..MaxRects }

InitPlacement ==
    /\ now = 0
    /\ fs = [p \in Paths |-> IF p = PathA THEN InputFile ELSE NoFile]
    /\ input_file = PathA
    /\ output_file = NoPath
    /\ compression_level \in Levels
    /\ pdf \in PlacedDocs
    /\ Started
    /\ dependencies = TRUE
    /\ oracle = FreeOracle
    /\ other = NoCall
    /\ worker = NoWorker
    /\ web = NoRequest
    /\ formatted = NoFormat

SpecPlacement == InitPlacement /\ [][Call]_vars

(***************************************************************************)
(* Two requests served at the same time.  The webhook names the file of    *)
(* each request after a fresh uuid and calls compress_pdf_file with the    *)
(* input path and the configured level.  One call is at the processor, its *)
(* locals in the variables; the locals of the other are kept in `other`,   *)
(* and the scheduler may exchange the two between any two statements.      *)
(***************************************************************************)
PairPaths == {PathA, PathB, WithStem(PathA), WithStem(PathB)}

\* the documents of the two requests: no image, or one large opaque image
PairDocs ==
    { [pages |-> << layout >>,
       images |-> <<MkImage(2000000, 3000, 2000, "RGB"), SecondImage>>] :
        layout \in {<<>>, <<Placement(1, 1)>>} }

Snapshot ==
    [pdf |-> pdf, input_file |-> input_file, output_file |-> output_file,
     compression_level |-> compression_level, pc |-> pc, doc |-> doc,
     temp_dir |-> temp_dir, page_num |-> page_num, img_index |-> img_index,
     img |-> img, images_compressed |-> images_compressed,
     input_size |-> input_size, output_size |-> output_size,
     result |-> result, returned_at |-> returned_at]

\* app.py lines 156-178: the call made for the file `path`
Requested(path, document) ==
    [pdf |-> document, input_file |-> path, output_file |-> NoPath,
     compression_level |-> DefaultLevel, pc |-> "start", doc |-> ClosedDoc,
     temp_dir |-> NoTempDir, page_num |-> 0, img_index |-> 0, img |-> NoImg,
     images_compressed |-> FALSE, input_size |-> Unset, output_size |-> Unset,
     result |-> NoPath, returned_at |-> 0]

InitPair ==
    /\ now = 0
    /\ fs = [p \in PairPaths |-> IF p \in {PathA, PathB} THEN InputFile ELSE NoFile]
    /\ input_file = PathA
    /\ output_file = NoPath
    /\ compression_level = DefaultLevel
    /\ pdf \in PairDocs
    /\ Started
    /\ dependencies = TRUE
    /\ oracle = FreeOracle
    /\ other \in { Requested(PathB, d) : d \in PairDocs }
    /\ worker = NoWorker
    /\ web = NoRequest
    /\ formatted = NoFormat

\* the processor is given to the other call
Switch ==
    /\ other.pc /= "none"
    /\ other' = Snapshot
    /\ pdf' = other.pdf
    /\ input_file' = other.input_file
    /\ output_file' = other.output_file
    /\ compression_level' = other.compression_level
    /\ pc' = other.pc
    /\ doc' = other.doc
    /\ temp_dir' = other.temp_dir
    /\ page_num' = other.page_num
    /\ img_index' = other.img_index
    /\ img' = other.img
    /\ images_compressed' = other.images_compressed
    /\ input_size' = other.input_size
    /\ output_size' = other.output_size
    /\ result' = other.result
    /\ returned_at' = other.returned_at
    /\ UNCHANGED <<fs, now, dependencies, oracle, worker, web, formatted>>

NextPair ==
    \/ Call
    \/ Switch

SpecPair == InitPair /\ [][NextPair]_vars

(***************************************************************************)
(* Two calls one after the other: the caller passes the path the first     *)
(* call returned, when it is the input path, to a second call at the same  *)
(* level.  The outcome of processing an image and the size of the saved    *)
(* document are the same functions of the content in both calls; the       *)
(* scratch directory, the opening, the page listing and the save may fail  *)
(* in one call and not in the other.                                       *)
(***************************************************************************)
FixedOracles ==
    { [fixed |-> TRUE, fail |-> <<f, "none">>, delta |-> <<d, 0>>,
       size |-> <<a, b, InputSize>>] :
        f \in {"none", "write", "insert"}, d \in {-1, 0},
        a \in SavedSizes, b \in SavedSizes }

InitTwice ==
    /\ now = 0
    /\ fs = [p \in Paths |-> IF p = PathA THEN InputFile ELSE NoFile]
    /\ input_file = PathA
    /\ output_file = NoPath
    /\ compression_level = DefaultLevel
    /\ pdf \in PairDocs
    /\ Started
    /\ dependencies \in BOOLEAN
    /\ oracle \in FixedOracles
    /\ other = NoCall
    /\ worker = NoWorker
    /\ web = NoRequest
    /\ formatted = NoFormat

\* compress(compress(f, L), L) where the inner call returned f
Restart ==
    /\ pc = "done"
    /\ other = NoCall
    /\ result = input_file
    /\ other' = Snapshot
    /\ input_file' = result
    /\ output_file' = NoPath
    /\ pc' = "start"
    /\ doc' = ClosedDoc
    /\ temp_dir' = NoTempDir
    /\ page_num' = 0
    /\ img_index' = 0
    /\ img' = NoImg
    /\ images_compressed' = FALSE
    /\ input_size' = Unset
    /\ output_size' = Unset
    /\ result' = NoPath
    /\ returned_at' = 0
    /\ UNCHANGED <<fs, now, pdf, compression_level, dependencies, oracle, worker, web,
                   formatted>>

NextTwice ==
    \/ Call
    \/ Restart

SpecTwice == InitTwice /\ [][NextTwice]_vars

(***************************************************************************)
(* The cleanup thread of file_manager.py, statement by statement, over an  *)
(* upload directory that holds regular files, a hidden file, a temp_ file  *)
(* and a subdirectory.  No call of compress_pdf_file is in progress.       *)
(***************************************************************************)
HiddenPath == MkPath(<<".", "gitkeep">>, "")
TempPath == MkPath(<<"temp_", "a">>, ".pdf")
SubDir == MkPath(<<"archive">>, "")

UploadEntries == {PathA, PathB, HiddenPath, TempPath, SubDir}

\* a subdirectory of the upload directory
Directory == MkFile(0, 0, "dir", 0, 0)

\* line 86: file_path.is_file()
IsFile(file) == file.exists /\ file.data /= "dir"

\* the age test with the sides exchanged
OldEnoughReversed(mtime, cutoff) == mtime > cutoff

\* line 96: file_mtime < cutoff_time
OldEnough(mtime, cutoff) == mtime < cutoff

\* the cutoff with the age added instead of subtracted
CutoffLater(t) == t + MAX_FILE_AGE_HOURS

\* line 80: datetime.now() - timedelta(hours=max_age_hours)
Cutoff(t) == t - MAX_FILE_AGE_HOURS

\* everything but the directory, the clock and the cleanup thread
request == <<pdf, input_file, compression_level, dependencies, oracle, other,
             output_file, pc, doc, temp_dir, loop, sizes, result, returned_at, web,
             formatted>>

\* the state after schedule_cleanup (lines 180-188): the flag is set and the
\* thread is about to test it
InitCleanup ==
    /\ now = 0
    /\ fs \in { [p \in UploadEntries |->
                   CASE p = PathA -> InputFile
                     [] p = PathB -> NoFile
                     [] p = HiddenPath -> hidden
                     [] p = TempPath -> temp
                     [] p = SubDir -> Directory] :
                hidden \in {NoFile, MkFile(1, 0, "orig", 0, 0)},
                temp \in {NoFile, InputFile} }
    /\ worker = [running |-> TRUE, pc |-> "loop", cutoff_time |-> Unset, todo |-> {},
                 files_removed |-> 0, files_kept |-> 0, errors |-> 0]
    /\ pdf = EmptyDoc
    /\ input_file = NoPath
    /\ output_file = NoPath
    /\ compression_level = DefaultLevel
    /\ dependencies = TRUE
    /\ oracle = FreeOracle
    /\ other = NoCall
    /\ web = NoRequest
    /\ formatted = NoFormat
    /\ Fresh("none")

\* lines 137-140 and 66-84: the loop test; a cycle starts with fresh
\* statistics, the cutoff and the listing of the directory
WorkerCycle ==
    /\ worker.pc = "loop"
    /\ worker' = IF worker.running
                 THEN [worker EXCEPT !.pc = "scan",
                                     !.cutoff_time = Cutoff(now),
                                     !.todo = {p \in DOMAIN fs : fs[p].exists},
                                     !.files_removed = 0,
                                     !.files_kept = 0,
                                     !.errors = 0]
                 ELSE [worker EXCEPT !.pc = "exited"]
    /\ UNCHANGED <<fs, now, request>>

\* lines 84-106: one entry of the listing
WorkerVisit(p) ==
    /\ worker.pc = "scan"
    /\ p \in worker.todo
    /\ LET w == [worker EXCEPT !.todo = @ \ {p}]
       IN IF ~IsFile(fs[p]) \/ Exempt(p)
          THEN worker' = w /\ UNCHANGED fs
          ELSE IF OldEnough(fs[p].mtime, worker.cutoff_time)
               THEN /\ fs' = [fs EXCEPT ![p] = NoFile]
                    /\ worker' = [w EXCEPT !.files_removed = @ + 1]
               ELSE /\ worker' = [w EXCEPT !.files_kept = @ + 1]
                    /\ UNCHANGED fs
    /\ UNCHANGED <<now, request>>

\* lines 112-122 and 143-148: the listing is exhausted, the statistics are
\* returned and the wait begins
WorkerReturn ==
    /\ worker.pc = "scan"
    /\ worker.todo = {}
    /\ worker' = [worker EXCEPT !.pc = "sleep"]
    /\ UNCHANGED <<fs, now, request>>

\* lines 149-152: the wait ends, after the last one-second sleep or at the
\* first one that finds the flag cleared
WorkerWake ==
    /\ worker.pc = "sleep"
    /\ worker' = [worker EXCEPT !.pc = "loop"]
    /\ UNCHANGED <<fs, now, request>>

Worker ==
    \/ WorkerCycle
    \/ \E p \in UploadEntries : WorkerVisit(p)
    \/ WorkerReturn
    \/ WorkerWake

\* app.py lines 155-160: a request writes a new file into the directory
CreateFile(p) ==
    /\ p \in {PathA, PathB}
    /\ ~Exists(p)
    /\ fs' = [fs EXCEPT ![p] = MkFile(InputSize, now, "orig", 0, 0)]
    /\ UNCHANGED <<now, call>>

NextCleanup ==
    \/ Worker
    \/ Tick
    \/ \E p \in UploadEntries : CreateFile(p)

\* the thread is a daemon thread of the server process: it is scheduled
\* again and again, and each of its steps ends
SpecCleanup == InitCleanup /\ [][NextCleanup]_vars /\ WF_vars(Worker)

(***************************************************************************)
(* One request of the webhook of app.py with compression enabled, from the *)
(* creation of the PDF to the response, with the cleanup thread and a      *)
(* clock that advances hour by hour.  The request is served within         *)
(* RequestHours, far less than the retention window.                       *)
(***************************************************************************)
RequestHours == 2

\* the clock is followed until the file of the request has been swept
HorizonHours == MAX_FILE_AGE_HOURS + RequestHours + 1

\* app.py line 57: the default of COMPRESSION_LEVEL
COMPRESSION_LEVEL == 3

\* app.py lines 156-158: the request after its file has been named
InitWebhook ==
    /\ now = 0
    /\ fs = [p \in Paths |-> NoFile]
    /\ web = [pc |-> "create", filepath |-> PathA, compressed_path |-> NoPath,
              file_size |-> Unset, expires_at |-> Unset]
    /\ formatted = NoFormat
    /\ worker = [running |-> TRUE, pc |-> "loop", cutoff_time |-> Unset, todo |-> {},
                 files_removed |-> 0, files_kept |-> 0, errors |-> 0]
    /\ pdf \in PairDocs
    /\ input_file = NoPath
    /\ output_file = NoPath
    /\ compression_level = COMPRESSION_LEVEL
    /\ dependencies = TRUE
    /\ oracle = FreeOracle
    /\ other = NoCall
    /\ Fresh("none")

\* the call of compress_pdf_file that the request makes
invocation == <<pdf, input_file, compression_level, dependencies, oracle, other,
                output_file, pc, doc, temp_dir, loop, sizes, result, returned_at>>

\* the request has not reached its response or its exception handler
InFlight == web.pc \in {"create", "compress", "call", "unlink", "rename", "stat", "respond"}

\* app.py lines 163-170: create_pdf writes the file, or raises
WebCreatePdf ==
    /\ web.pc = "create"
    /\ \/ /\ fs' = [fs EXCEPT ![web.filepath] = MkFile(InputSize, now, "orig", 0, 0)]
          /\ web' = [web EXCEPT !.pc = "compress"]
       \/ /\ web' = [web EXCEPT !.pc = "failed"]
          /\ UNCHANGED fs
    /\ UNCHANGED <<now, invocation, worker, formatted>>

\* app.py lines 175-178: compress_pdf_file is entered
WebCompress ==
    /\ web.pc = "compress"
    /\ pc = "none"
    /\ pc' = "start"
    /\ input_file' = web.filepath
    /\ output_file' = NoPath
    /\ compression_level' = COMPRESSION_LEVEL
    /\ web' = [web EXCEPT !.pc = "call"]
    /\ UNCHANGED <<fs, now, pdf, dependencies, oracle, other, worker, doc, temp_dir,
                   loop, sizes, result, returned_at, formatted>>

\* the comparison with the sides made equal: the file is never replaced
ReplacesNever(compressed_path, filepath) == compressed_path /= compressed_path

\* app.py line 181: compressed_path != str(filepath)
Replaces(compressed_path, filepath) == compressed_path /= filepath

\* app.py lines 175-181: the call has returned, or has raised into the
\* handler of line 211
WebReturn ==
    /\ web.pc = "call"
    /\ pc \in {"done", "raised"}
    /\ web' = IF pc = "raised"
              THEN [web EXCEPT !.pc = "failed"]
              ELSE [web EXCEPT !.compressed_path = result,
                               !.pc = IF Replaces(result, web.filepath)
                                      THEN "unlink" ELSE "stat"]
    /\ UNCHANGED <<fs, now, invocation, worker, formatted>>

\* app.py line 182: filepath.unlink()
WebUnlink ==
    /\ web.pc = "unlink"
    /\ IF Exists(web.filepath)
       THEN /\ fs' = [fs EXCEPT ![web.filepath] = NoFile]
            /\ web' = [web EXCEPT !.pc = "rename"]
       ELSE /\ web' = [web EXCEPT !.pc = "failed"]
            /\ UNCHANGED fs
    /\ UNCHANGED <<now, invocation, worker, formatted>>

\* app.py line 183: Path(compressed_path).rename(filepath)
WebRename ==
    /\ web.pc = "rename"
    /\ IF Exists(web.compressed_path)
       THEN /\ fs' = [fs EXCEPT ![web.filepath] = fs[web.compressed_path],
                                ![web.compressed_path] = NoFile]
            /\ web' = [web EXCEPT !.pc = "stat"]
       ELSE /\ web' = [web EXCEPT !.pc = "failed"]
            /\ UNCHANGED fs
    /\ UNCHANGED <<now, invocation, worker, formatted>>

\* app.py line 186: filepath.stat().st_size
WebStat ==
    /\ web.pc = "stat"
    /\ web' = IF Exists(web.filepath)
              THEN [web EXCEPT !.file_size = fs[web.filepath].size, !.pc = "respond"]
              ELSE [web EXCEPT !.pc = "failed"]
    /\ UNCHANGED <<fs, now, invocation, worker, formatted>>

\* app.py lines 195-205: the response, with expires_at taken from the clock
WebRespond ==
    /\ web.pc = "respond"
    /\ web' = [web EXCEPT !.expires_at = now + MAX_FILE_AGE_HOURS, !.pc = "done"]
    /\ UNCHANGED <<fs, now, invocation, worker, formatted>>

Webhook ==
    \/ WebCreatePdf
    \/ WebCompress
    \/ WebReturn
    \/ WebUnlink
    \/ WebRename
    \/ WebStat
    \/ WebRespond

\* one hour passes; a request is answered within RequestHours
Hour ==
    /\ now < HorizonHours
    /\ InFlight => now < RequestHours
    /\ now' = now + 1
    /\ UNCHANGED <<fs, call>>

NextWebhook ==
    \/ Webhook
    \/ Call
    \/ WorkerCycle
    \/ \E p \in Paths : WorkerVisit(p)
    \/ WorkerReturn
    \/ WorkerWake
    \/ Hour

SpecWebhook == InitWebhook /\ [][NextWebhook]_vars

(***************************************************************************)
(* schedule_cleanup and stop_cleanup of file_manager.py, called by the     *)
(* main thread in any order, and the threads they start.  The fields of    *)
(* `worker` are the two globals (running, thread), the position of the     *)
(* main thread (main, resume), the locals of the cleanup thread that is at *)
(* the processor and, in `old`, those of the other thread that is alive.   *)
(***************************************************************************)
MaxThreads == 2
SleepSeconds == 2

\* no second thread
NoThread == [pc |-> "none"]

\* the locals of one cleanup thread
ThreadLocals(w) ==
    [pc |-> w.pc, cutoff_time |-> w.cutoff_time, todo |-> w.todo,
     files_removed |-> w.files_removed, files_kept |-> w.files_kept,
     errors |-> w.errors, slept |-> w.slept, id |-> w.id]

\* Thread.is_alive()
Alive(t) == t.pc \notin {"none", "exited"}

\* the state after initialize_app (app.py lines 300-312): schedule_cleanup
\* has started the first thread
InitLifecycle ==
    /\ now = 0
    /\ fs \in { [p \in UploadEntries |->
                   CASE p = PathA -> InputFile
                     [] p = PathB -> second
                     [] p = SubDir -> Directory
                     [] OTHER -> NoFile] : second \in {NoFile, InputFile} }
    /\ worker = [running |-> TRUE, thread |-> 1, main |-> "idle", resume |-> "idle",
                 old |-> NoThread,
                 pc |-> "loop", cutoff_time |-> Unset, todo |-> {},
                 files_removed |-> 0, files_kept |-> 0, errors |-> 0,
                 slept |-> 0, id |-> 1]
    /\ pdf = EmptyDoc
    /\ input_file = NoPath
    /\ output_file = NoPath
    /\ compression_level = DefaultLevel
    /\ dependencies = TRUE
    /\ oracle = FreeOracle
    /\ other = NoCall
    /\ web = NoRequest
    /\ formatted = NoFormat
    /\ Fresh("none")

\* the wait that is ended only by the count of seconds
SleepEndsLate(running, slept) == slept = SleepSeconds

\* lines 149-151: the range is exhausted, or the flag is found cleared
SleepEnds(running, slept) == ~running \/ slept = SleepSeconds

\* lines 149-152: one pass of the waiting loop, one second long
WorkerSleep ==
    /\ worker.pc = "sleep"
    /\ worker' = IF SleepEnds(worker.running, worker.slept)
                 THEN [worker EXCEPT !.pc = "loop", !.slept = 0]
                 ELSE [worker EXCEPT !.slept = @ + 1]
    /\ UNCHANGED <<fs, now, request>>

\* the steps of a cleanup thread
Thread ==
    \/ WorkerCycle
    \/ \E p \in UploadEntries : WorkerVisit(p)
    \/ WorkerReturn
    \/ WorkerSleep

\* the other thread comes to the processor
SwitchThread ==
    /\ worker.old.pc /= "none"
    /\ worker' = [pc |-> worker.old.pc, cutoff_time |-> worker.old.cutoff_time,
                  todo |-> worker.old.todo,
                  files_removed |-> worker.old.files_removed,
                  files_kept |-> worker.old.files_kept,
                  errors |-> worker.old.errors, slept |-> worker.old.slept,
                  id |-> worker.old.id,
                  old |-> ThreadLocals(worker),
                  running |-> worker.running, thread |-> worker.thread,
                  main |-> worker.main, resume |-> worker.resume]
    /\ UNCHANGED <<fs, now, request>>

\* the thread that _cleanup_thread names
CleanupThread ==
    IF worker.id = worker.thread THEN ThreadLocals(worker) ELSE worker.old

\* line 161: the main thread calls schedule_cleanup, which begins with
\* stop_cleanup (line 177)
CallSchedule ==
    /\ worker.main = "idle"
    /\ worker.thread < MaxThreads
    /\ worker' = [worker EXCEPT !.main = "test", !.resume = "start"]
    /\ UNCHANGED <<fs, now, request>>

\* line 196: the main thread calls stop_cleanup
CallStop ==
    /\ worker.main = "idle"
    /\ worker' = [worker EXCEPT !.main = "test", !.resume = "idle"]
    /\ UNCHANGED <<fs, now, request>>

\* lines 205-206
StopTest ==
    /\ worker.main = "test"
    /\ worker' = [worker EXCEPT !.main = IF worker.running THEN "flag" ELSE worker.resume]
    /\ UNCHANGED <<fs, now, request>>

\* line 209
StopFlag ==
    /\ worker.main = "flag"
    /\ worker' = [worker EXCEPT !.running = FALSE, !.main = "join"]
    /\ UNCHANGED <<fs, now, request>>

\* lines 211-215: join(timeout=5) returns when the thread has ended, or
\* after five seconds; a thread that waits or tests the flag ends within
\* one second, a thread inside cleanup_old_files may take longer
StopJoin ==
    /\ worker.main = "join"
    /\ CleanupThread.pc \in {"exited", "scan"}
    /\ worker' = [worker EXCEPT !.main = worker.resume]
    /\ UNCHANGED <<fs, now, request>>

\* lines 180-187: the flag is set and a new thread is started; the model
\* follows two threads, so one of the two places must be free
StartThread ==
    /\ worker.main = "start"
    /\ ~Alive(worker) \/ ~Alive(worker.old)
    /\ worker' = [worker EXCEPT !.running = TRUE,
                                !.thread = @ + 1,
                                !.main = "idle",
                                !.old = IF Alive(worker) THEN ThreadLocals(worker)
                                        ELSE worker.old,
                                !.pc = "loop",
                                !.cutoff_time = Unset,
                                !.todo = {},
                                !.files_removed = 0,
                                !.files_kept = 0,
                                !.errors = 0,
                                !.slept = 0,
                                !.id = worker.thread + 1]
    /\ UNCHANGED <<fs, now, request>>

StopCleanup ==
    \/ CallStop
    \/ StopTest
    \/ StopFlag
    \/ StopJoin

NextLifecycle ==
    \/ Thread
    \/ SwitchThread
    \/ CallSchedule
    \/ StopCleanup
    \/ StartThread

SpecLifecycle == InitLifecycle /\ [][NextLifecycle]_vars

NextStop ==
    \/ Thread
    \/ StopCleanup
    \/ Tick

\* stop_cleanup is called and schedule_cleanup is not called again; the
\* thread is scheduled again and again
SpecStop == InitLifecycle /\ [][NextStop]_vars /\ WF_vars(Thread)

(***************************************************************************)
(* The cleanup thread with the failures of the file system calls of        *)
(* cleanup_old_files: the listing of the directory may raise, and so may   *)
(* stat and unlink on a regular file.                                      *)
(***************************************************************************)

\* lines 84 and 118-122: iterdir raises; the outer handler counts one error
\* and the statistics are returned with no entry examined
WorkerListingFails ==
    /\ worker.pc = "loop"
    /\ worker.running
    /\ worker' = [worker EXCEPT !.pc = "scan",
                                !.cutoff_time = Cutoff(now),
                                !.todo = {},
                                !.files_removed = 0,
                                !.files_kept = 0,
                                !.errors = 1]
    /\ UNCHANGED <<fs, now, request>>

\* lines 94-110: stat or unlink raises on a regular file that is not
\* exempt; the handler counts the error and the loop goes on
WorkerVisitError(p) ==
    /\ worker.pc = "scan"
    /\ p \in worker.todo
    /\ IsFile(fs[p])
    /\ ~Exempt(p)
    /\ worker' = [worker EXCEPT !.todo = @ \ {p}, !.errors = @ + 1]
    /\ UNCHANGED <<fs, now, request>>

NextSweep ==
    \/ Worker
    \/ WorkerListingFails
    \/ \E p \in UploadEntries : WorkerVisitError(p)
    \/ Tick
    \/ \E p \in UploadEntries : CreateFile(p)

SpecSweep == InitCleanup /\ [][NextSweep]_vars

(***************************************************************************)
(* format_file_size of pdf_compressor.py.  A string "W.T UNIT" is the      *)
(* record of its whole part, its decimal and its unit; "N B" has no        *)
(* decimal.  size_bytes / unit is exact in a double for every size below   *)
(* 2^53, so the .1f format rounds the exact quotient, a tie to the even    *)
(* decimal.  The arithmetic is split at 1024 to stay within 32 bits.       *)
(***************************************************************************)
KB == 1024
MB == 1024 * 1024
GB == 1024 * 1024 * 1024

NoTenth == -1

\* the comparison that sends the limit itself to the smaller unit
BelowOrEqual(size_bytes, limit) == size_bytes <= limit

\* lines 258, 260 and 262: size_bytes < limit
Below(size_bytes, limit) == size_bytes < limit

\* f"{size_bytes / unit:.1f}": the quotient in tenths, rounded half to even
Tenths(size_bytes, unit) ==
    LET m == unit \div 1024
        q == size_bytes \div unit
        r == size_bytes % unit
        a == 10 * (r \div 1024) + (10 * (r % 1024)) \div 1024
        b == (10 * (r % 1024)) % 1024
        down == 10 * q + a \div m
        rem == a % m
        more == \/ 2 * rem > m
                \/ 2 * rem = m /\ b > 0
                \/ 2 * rem = m - 1 /\ b > 512
        tie == \/ 2 * rem = m /\ b = 0
               \/ 2 * rem = m - 1 /\ b = 512
    IN IF more \/ (tie /\ down % 2 = 1) THEN down + 1 ELSE down

\* lines 261, 263 and 265
OneDecimal(size_bytes, unit, name) ==
    [unit |-> name,
     whole |-> Tenths(size_bytes, unit) \div 10,
     tenth |-> Tenths(size_bytes, unit) % 10]

\* lines 258-265
format_file_size(size_bytes) ==
    IF Below(size_bytes, KB)
    THEN [unit |-> "B", whole |-> size_bytes, tenth |-> NoTenth]
    ELSE IF Below(size_bytes, MB)
         THEN OneDecimal(size_bytes, KB, "KB")
         ELSE IF Below(size_bytes, GB)
              THEN OneDecimal(size_bytes, MB, "MB")
              ELSE OneDecimal(size_bytes, GB, "GB")

\* the sizes formatted: around each threshold, the ties of each unit, and
\* some sizes in between
FormatSizes ==
    UNION { {0, 1, 999},
            (KB - 3)..(KB + 3),
            { KB + 256 * k : k \in 1..12 },
            { 1331, 2000, 10000, 102348, 102349, 500000 },
            (MB - 60)..(MB + 3),
            { MB + (MB \div 4) * k : k \in 1..8 },
            { 2000000, 5000000, 104805171, 104805172, 1000000000 },
            (GB - 60)..(GB - 1),
            { GB, GB + 1, GB + GB \div 4, GB + (GB \div 4) * 3, GB + (GB - 1) } }

InitFormat ==
    /\ formatted \in { [size_bytes |-> n, text |-> NoText] : n \in FormatSizes }
    /\ now = 0
    /\ fs = [p \in Paths |-> NoFile]
    /\ pdf = EmptyDoc
    /\ input_file = NoPath
    /\ output_file = NoPath
    /\ compression_level = DefaultLevel
    /\ dependencies = TRUE
    /\ oracle = FreeOracle
    /\ other = NoCall
    /\ worker = NoWorker
    /\ web = NoRequest
    /\ Fresh("none")

\* one call of format_file_size
FormatFileSize ==
    /\ formatted.text = NoText
    /\ formatted' = [formatted EXCEPT !.text = format_file_size(formatted.size_bytes)]
    /\ UNCHANGED <<fs, now, invocation, worker, web>>

SpecFormat == InitFormat /\ [][FormatFileSize]_vars

(***************************************************************************)
(* Properties of compress_pdf_file.                                        *)
(***************************************************************************)

\* C1: whenever the call has returned, the returned path names a file that
\* exists on disk (the compressed file or the original input).
C1_ReturnedPathExists == pc = "done" => Exists(result)

\* C2: the file at the returned path is never larger than the input file
\* was when the call began.
C2_NeverLarger ==
    (pc = "done" /\ Exists(result)) => fs[result].size <= InputSize

C2_Witness ==
    /\ pc = "done"
    /\ result = WithStem(input_file)
    /\ Exists(result)
    /\ fs[result].size < InputSize

\* C3: no step of the call writes or removes any file but the one at the
\* output path, and it does so only when the output path differs from the
\* input path; so the input file is left as it was.
C3_InputUntouched ==
    [][Call => \A p \in Paths :
                 fs'[p] /= fs[p] => (p = output_file /\ p /= input_file)]_vars

C3_Witness ==
    /\ pc = "done"
    /\ returned_at = 211
    /\ now = 0
    /\ doc.saved
    /\ ~Exists(output_file)
    /\ fs[input_file] = InputFile

C5_KeepIffSmaller ==
    (pc = "done" /\ doc.saved) =>
        /\ result = output_file
              <=> (input_size /= Unset /\ output_size /= Unset
                   /\ output_size < input_size)
        /\ result /= output_file => result = input_file

C5_Witness ==
    /\ pc = "done"
    /\ doc.saved
    /\ output_size = input_size
    /\ input_size = InputSize
    /\ result = input_file

C8_NoImageLost == Lost(doc) = {}

\* C9: an image under 10,000 bytes is never decoded, re-encoded, deleted or
\* replaced; an image of exactly 10,000 bytes goes on to be decoded.
C9_SmallBytesUntouched ==
    /\ (img.len /= Unset /\ img.len < 10000) =>
          (~img.opened /\ ~img.encoded /\ ~img.written /\ ~img.deleted
           /\ ~img.inserted)
    /\ img.len = 10000 => img.opened
    /\ \A x \in doc.blanked : pdf.images[x].len >= 10000

C9_Witness ==
    /\ pc \in {"page", "images"}
    /\ img.xref = 1
    /\ img.len = 9999
    /\ pdf.images[1].width = 3000

\* C10: an image with a width or a height under 100 pixels is never
\* re-encoded or replaced; an image that was decoded with both dimensions at
\* least 100 (and so with at least 10,000 bytes) reaches the encoder,
\* whatever its colour mode.
C10_SmallDimensionUntouched ==
    /\ (img.width /= Unset /\ (img.width < 100 \/ img.height < 100)) =>
          (~img.encoded /\ ~img.written /\ ~img.deleted /\ ~img.inserted)
    /\ \A x \in doc.blanked :
          pdf.images[x].width >= 100 /\ pdf.images[x].height >= 100
    /\ (img.width /= Unset /\ img.width >= 100 /\ img.height >= 100
          /\ img.raised /= "resize") =>
          (img.encoded /\ img.len >= 10000)

C10_Witness ==
    /\ pc \in {"page", "images"}
    /\ img.len = 20000
    /\ img.width = 99
    /\ img.height = 3000
    /\ ~img.encoded

\* C11: a failure while one embedded image is processed is confined to that
\* image: the pass over an image, failed or not, goes on to the next image of
\* the page or to the next page and never to the outer handler, and the page
\* loop is left only for the save, after the last page.
C11_FailureConfined ==
    [][/\ (pc = "images" /\ <<pc, page_num, img_index, img>>' /= <<pc, page_num, img_index, img>>)
          => /\ doc'.is_open
             /\ temp_dir'.exists
             /\ IF img_index + 1 < Len(pdf.pages[page_num + 1])
                THEN pc' = "images" /\ page_num' = page_num /\ img_index' = img_index + 1
                ELSE pc' = "page" /\ page_num' = page_num + 1
       /\ (pc = "page" /\ pc' \notin {"page", "images", "except"})
          => (pc' = "save" /\ page_num = Len(pdf.pages))]_vars

C11_Witness ==
    /\ pc = "images"
    /\ page_num = 0
    /\ img_index = 1
    /\ img.xref = 1
    /\ img.raised = "insert"

\* C12: the scratch directory exists while the statements of the with block
\* run, and neither it nor any img_<page>_<index>.jpg in it exists once the
\* call has returned or has entered the exception handler.
C12_ScratchRemoved ==
    /\ pc \in {"open", "page", "images", "save", "close", "size_in", "size_out",
               "compare", "fb_exists", "fb_remove"} => temp_dir.exists
    /\ pc \in {"done", "except", "h_remove", "raised"} =>
          (~temp_dir.exists /\ temp_dir.files = {})

C12_Witness ==
    /\ pc = "done"
    /\ returned_at = 205
    /\ images_compressed
    /\ temp_dir = NoTempDir

C14_IconReturnsInput ==
    (/\ pdf.images[1] = MkImage(500, 50, 50, "RGB")
     /\ \A n \in 1..Len(pdf.pages) : pdf.pages[n] = <<Placement(1, 1)>>
     /\ pc = "done")
        => (result = input_file /\ ~images_compressed)

\* C14, amended: for such a PDF no image is replaced at any level, and the
\* call returns the input path unless the saved document is strictly
\* smaller than the input, in which case it returns the output path.
C14_IconNeverReplaced ==
    (/\ pdf.images[1] = MkImage(500, 50, 50, "RGB")
     /\ \A n \in 1..Len(pdf.pages) : pdf.pages[n] = <<Placement(1, 1)>>)
        => /\ ~images_compressed
           /\ doc.inserted = {}
           /\ doc.blanked = {}
           /\ ~img.encoded
           /\ temp_dir.files = {}
           /\ \A p \in Paths : Exists(p) => fs[p].replaced = 0
           /\ pc = "done" =>
                 /\ result \in {input_file, output_file}
                 /\ result = output_file
                       <=> (input_size /= Unset /\ output_size /= Unset
                            /\ output_size < input_size)

C14_Witness ==
    /\ pdf.images[1] = MkImage(500, 50, 50, "RGB")
    /\ pdf.pages = << <<Placement(1, 1)>> >>
    /\ compression_level = 4
    /\ pc = "done"
    /\ result = output_file
    /\ Exists(result)
    /\ fs[result].replaced = 0

\* C17: in the tier table a higher level never has a higher quality, dpi or
\* max_dimension than a lower one, and the settings a call works with are
\* an entry of that table.
C17_TiersOrdered ==
    /\ DOMAIN quality_settings = 0..4
    /\ \A i, j \in DOMAIN quality_settings :
          i < j => /\ quality_settings[i].quality >= quality_settings[j].quality
                   /\ quality_settings[i].dpi >= quality_settings[j].dpi
                   /\ quality_settings[i].max_dimension
                         >= quality_settings[j].max_dimension
    /\ \E l \in DOMAIN quality_settings : settings = quality_settings[l]
    /\ compression_level \in DOMAIN quality_settings
          => settings = quality_settings[compression_level]

C17_Witness ==
    /\ pc = "images"
    /\ compression_level = 4
    /\ img.width = 3000
    /\ img.new_width = 1500
    /\ img.new_height = 1000

\* C19: every call that reaches the end of the page loop saves the document,
\* whether or not an image was replaced; when no image was replaced and the
\* saved file is smaller than the input, the output path is returned.
C19_SavedWithoutReplacement ==
    /\ pc \in {"close", "size_in", "size_out", "compare", "fb_exists", "fb_remove"}
          => doc.saved
    /\ (pc = "done" /\ returned_at \in {205, 211}) => doc.saved
    /\ (/\ pc = "done"
        /\ ~images_compressed
        /\ input_size /= Unset
        /\ output_size /= Unset
        /\ output_size < input_size)
          => (result = output_file /\ returned_at = 205)

C19_Witness ==
    /\ pc = "done"
    /\ pdf.pages = << <<>> >>
    /\ ~images_compressed
    /\ result = output_file
    /\ result /= input_file
    /\ Exists(result)
    /\ fs[result].data = "saved"
    /\ fs[result].size < InputSize

\* C20: an image that reaches the encoder is resized exactly when its larger
\* dimension exceeds max_dimension, and then each new dimension is
\* round(dimension * max_dimension / larger dimension), the larger one
\* becoming max_dimension.
C20_RoundedDimensions ==
    (img.width /= Unset /\ ~TooSmall(img.width, img.height) /\ img.raised /= "resize")
        => LET m == settings.max_dimension
               c == Max(img.width, img.height)
               round(a, b) == IF 2 * (a % b) > b \/ (2 * (a % b) = b /\ (a \div b) % 2 = 1)
                              THEN a \div b + 1
                              ELSE a \div b
           IN IF c > m
              THEN /\ img.new_width = round(img.width * m, c)
                   /\ img.new_height = round(img.height * m, c)
                   /\ Max(img.new_width, img.new_height) = m
              ELSE img.new_width = Unset /\ img.new_height = Unset

\* C18: while the cleanup thread runs, a regular file of the upload directory
\* that is neither hidden nor named temp_... and whose modification time is
\* more than max_age_hours in the past is eventually deleted.
C18_OldFilesDeleted ==
    \A p \in UploadEntries :
        (/\ worker.running
         /\ IsFile(fs[p])
         /\ ~Exempt(p)
         /\ Expired(fs[p])) ~> ~Exists(p)

C18_Witness ==
    /\ worker.pc = "sleep"
    /\ worker.files_removed = 1
    /\ now > MAX_FILE_AGE_HOURS
    /\ ~Exists(PathA)
    /\ Exists(HiddenPath)
    /\ Exists(TempPath)
    /\ Exists(SubDir)

\* C16: two calls made at the same time for two requests work on disjoint
\* paths; in every interleaving each call finds the files it reads and
\* removes where it left them, and when it has returned, its input file and
\* the file at its returned path are as that call alone made them.
C16_Independent ==
    /\ input_file /= other.input_file
    /\ {input_file, output_file} \cap {other.input_file, other.output_file}
          \subseteq {NoPath}
    /\ fs[input_file] = InputFile
    /\ pc \in {"close", "size_in", "size_out"} =>
          (Exists(output_file) /\ fs[output_file].data = "saved")
    /\ pc = "compare" => output_size = fs[output_file].size
    /\ pc = "fb_remove" => Exists(output_file)
    /\ pc = "done" =>
          /\ returned_at \in {205, 211, 221}
          /\ returned_at = 205 =>
                /\ result = WithStem(input_file)
                /\ Exists(result)
                /\ fs[result].size = output_size
                /\ output_size < InputSize
          /\ returned_at \in {211, 221} =>
                /\ result = input_file
                /\ \A p \in PairPaths \ {PathA, PathB} :
                      Exists(p) => p \in {other.output_file}

C16_Witness ==
    /\ input_file = PathB
    /\ pc = "done"
    /\ returned_at = 205
    /\ images_compressed
    /\ other.pc = "done"
    /\ other.returned_at = 211
    /\ other.output_size = InputSize
    /\ fs[PathA] = InputFile
    /\ ~Exists(WithStem(PathA))

\* C15 as stated: when a first call returned the input path f, whatever the
\* reason, a second call on f at the same level returns a file of the size
\* of f.
C15_SameSizeAfterReturningInput ==
    (other.pc = "done" /\ pc = "done")
        => (Exists(result) /\ fs[result].size = InputSize)

\* C15, amended: when a first call returned the input path f from the
\* no-benefit branch (line 211), a second call on f at the same level, with
\* the same outcome for each image, returns f again, and f has the size it
\* had.
C15_FallbackIdempotent ==
    (other.pc = "done" /\ other.returned_at = 211 /\ pc = "done")
        => /\ result = input_file
           /\ result = other.result
           /\ returned_at \in {211, 221}
           /\ Exists(result)
           /\ fs[result].size = InputSize

C15_Witness ==
    /\ other.pc = "done"
    /\ other.returned_at = 211
    /\ other.images_compressed
    /\ pc = "done"
    /\ returned_at = 211
    /\ images_compressed
    /\ output_size = InputSize + 1
    /\ result = PathA
    /\ fs[PathA] = InputFile

\* C21: a replacement is inserted at every rectangle at which the original
\* was shown on the page, and at the default rectangle (0, 0, 100, 100)
\* exactly when the original was shown at none; the rectangles numbered
\* 1..n are those page.get_image_rects lists, 0 is the default.
C21_EveryRectangle ==
    \A ins \in doc.inserted :
        LET shown == { j \in 1..Len(pdf.pages[ins.page + 1]) :
                         pdf.pages[ins.page + 1][j].xref = ins.from }
            n == pdf.pages[ins.page + 1][CHOOSE j \in shown : TRUE].rects
            at == { i.rect : i \in { k \in doc.inserted :
                                       k.page = ins.page /\ k.from = ins.from } }
        IN at = IF n = 0 THEN {0} ELSE 1..n

(***************************************************************************)
(* Properties of the webhook request and of the cleanup thread.            *)
(***************************************************************************)

\* the file the request created, and the file compress_pdf_file derives from it
RequestFiles == {web.filepath, WithStem(web.filepath)}

\* C22: while a webhook request is in flight, no step of the cleanup thread
\* deletes the request's file or its _compressed output, and every file the
\* request reads, sizes, unlinks or renames is there when it does so: the
\* request fails only when create_pdf itself raised.
C22_SweepSparesRequest ==
    /\ [][(InFlight /\ \E p \in RequestFiles : Exists(p) /\ ~fs'[p].exists)
            => worker' = worker]_vars
    /\ [](/\ (web.pc = "call" /\ pc \in {"open", "size_in"}) => Exists(input_file)
          /\ (web.pc = "call" /\ pc = "size_out") => Exists(output_file)
          /\ web.pc = "unlink" => Exists(web.filepath)
          /\ web.pc = "rename" => Exists(web.compressed_path)
          /\ web.pc = "stat" => Exists(web.filepath)
          /\ web.pc = "failed" => pc = "none")

\* a cleanup cycle has examined and kept both files of a request that has
\* been in flight for an hour
C22_Witness ==
    /\ web.pc = "call"
    /\ pc = "compare"
    /\ now > 0
    /\ worker.pc = "scan"
    /\ worker.todo = {}
    /\ worker.files_kept = 2

C28_KeptUntilExpiry ==
    (web.pc = "done" /\ now < web.expires_at) => Exists(web.filepath)

\* C23: a cleanup thread that a later call of schedule_cleanup has replaced
\* does not begin another cleanup cycle: only the thread started last runs
\* the loop, so at most one thread is executing it.
C23_SupersededWorkerStops ==
    [][(worker.pc = "loop" /\ worker'.pc = "scan") => worker.id = worker.thread]_vars

\* C24: once stop_cleanup has cleared the flag and schedule_cleanup is not
\* called again, the cleanup thread eventually leaves its loop; it begins no
\* cleanup cycle after the flag was cleared, and the first pass of its
\* waiting loop that follows the clearing of the flag ends the wait instead
\* of sleeping another second.
C24_WorkerStops ==
    /\ (~worker.running) ~> (worker.pc = "exited")
    /\ [][~worker.running => ~(worker.pc = "loop" /\ worker'.pc = "scan")]_vars
    /\ [][(/\ ~worker.running
           /\ worker.pc = "sleep"
           /\ ThreadLocals(worker') /= ThreadLocals(worker)) => worker'.pc = "loop"]_vars

\* the thread has ended after a cleanup cycle, and stop_cleanup has returned
C24_Witness ==
    /\ worker.pc = "exited"
    /\ ~worker.running
    /\ worker.main = "idle"
    /\ worker.files_kept = 1

\* C25 as stated: cleanup_old_files deletes only regular files whose name
\* starts neither with '.' nor with 'temp_' and whose mtime is strictly
\* older than now minus max_age_hours; each entry examined leaves the rest
\* to be processed and adds one to files_removed + files_kept + errors when
\* it is a regular file that is not exempt, and nothing otherwise; and the
\* sum is zero when the scan begins, so that it equals the number of such
\* files examined.
C25_SumIsFilesExamined ==
    [][LET sum(w) == w.files_removed + w.files_kept + w.errors
           counted(p) == /\ IsFile(fs[p])
                         /\ ~(p.stem /= <<>> /\ p.stem[1] \in {".", "temp_"})
       IN /\ \A p \in UploadEntries :
                (fs[p].exists /\ ~fs'[p].exists) =>
                    counted(p) /\ fs[p].mtime < now - MAX_FILE_AGE_HOURS
          /\ (worker.pc = "scan" /\ worker'.pc = "scan" /\ worker' /= worker) =>
                \E p \in worker.todo :
                    /\ worker'.todo = worker.todo \ {p}
                    /\ sum(worker') = sum(worker) + (IF counted(p) THEN 1 ELSE 0)
          /\ (worker.pc = "loop" /\ worker'.pc = "scan") => sum(worker') = 0]_vars

\* C25, amended: as above, but the sum is zero when the scan begins only
\* if the listing of the directory succeeded; when the listing raised, errors
\* is one and no entry is examined.
C25_SumIsFilesExaminedOrListingFailed ==
    [][LET sum(w) == w.files_removed + w.files_kept + w.errors
           counted(p) == /\ IsFile(fs[p])
                         /\ ~(p.stem /= <<>> /\ p.stem[1] \in {".", "temp_"})
       IN /\ \A p \in UploadEntries :
                (fs[p].exists /\ ~fs'[p].exists) =>
                    counted(p) /\ fs[p].mtime < now - MAX_FILE_AGE_HOURS
          /\ (worker.pc = "scan" /\ worker'.pc = "scan" /\ worker' /= worker) =>
                \E p \in worker.todo :
                    /\ worker'.todo = worker.todo \ {p}
                    /\ sum(worker') = sum(worker) + (IF counted(p) THEN 1 ELSE 0)
          /\ (worker.pc = "loop" /\ worker'.pc = "scan") =>
                \/ sum(worker') = 0
                \/ worker'.errors = 1 /\ sum(worker') = 1 /\ worker'.todo = {}]_vars

\* a scan has counted an error on one old file and has gone on to remove
\* another, with a temp_ file in the directory
C25_Witness ==
    /\ worker.pc = "scan"
    /\ worker.todo = {}
    /\ worker.errors = 1
    /\ worker.files_removed = 1
    /\ Exists(TempPath)
    /\ fs[TempPath].mtime < now - MAX_FILE_AGE_HOURS

\* C27: when the call has returned, on whichever path, the document handle
\* it opened has been closed.
C27_HandleClosed == pc = "done" => ~doc.is_open

\* C29: format_file_size gives "N B" below 1024, and otherwise the unit KB
\* below 1024^2, MB below 1024^3 and GB from 1024^3 on, with the value
\* size / unit rounded to one decimal: the value printed, in tenths, is
\* within half a tenth of the quotient.  The call changes nothing else.
C29_UnitAndOneDecimal ==
    LET n == formatted.size_bytes
        t == formatted.text
        tenths == 10 * t.whole + t.tenth
        \* 20 n / 1024, rounded down and rounded up
        lo == 20 * (n \div 1024) + (20 * (n % 1024)) \div 1024
        hi == 20 * (n \div 1024) + (20 * (n % 1024) + 1023) \div 1024
        rounded(m) == /\ t.tenth \in 0..9
                      /\ (2 * tenths - 1) * m <= lo
                      /\ hi <= (2 * tenths + 1) * m
    IN t /= NoText =>
          /\ fs = [p \in Paths |-> NoFile]
          /\ n < 1024 => t = [unit |-> "B", whole |-> n, tenth |-> -1]
          /\ (1024 <= n /\ n < 1048576) => (t.unit = "KB" /\ rounded(1))
          /\ (1048576 <= n /\ n < 1073741824) => (t.unit = "MB" /\ rounded(1024))
          /\ 1073741824 <= n => (t.unit = "GB" /\ rounded(1048576))

\* 1.25 GB, a tie, has been formatted as "1.2 GB"
C29_Witness ==
    /\ formatted.size_bytes = 1342177280
    /\ formatted.text = [unit |-> "GB", whole |-> 1, tenth |-> 2]

\* C30: a compression_level outside 0..4 is not an error: the call uses the
\* settings of tier 3 (quality 75, dpi 150, max_dimension 2000), so an image
\* is scaled as the call with level 3 scales it, and the call returns.
C30_UnknownLevelIsTierThree ==
    compression_level \notin 0..4 =>
        /\ settings = [quality |-> 75, dpi |-> 150, max_dimension |-> 2000]
        /\ pc /= "raised"
        /\ img.new_width /= Unset =>
              /\ img.new_width =
                    IF Max(img.width, img.height) > 2000
                    THEN (img.width * 2000) \div Max(img.width, img.height)
                    ELSE img.width
              /\ img.new_height =
                    IF Max(img.width, img.height) > 2000
                    THEN (img.height * 2000) \div Max(img.width, img.height)
                    ELSE img.height

\* a call with level 5 has scaled a 3000 x 2000 image to 2000 x 1333
C30_Witness ==
    /\ compression_level = 5
    /\ img.width = 3000
    /\ img.new_width = 2000
    /\ img.new_height = 1333

====
